---- MODULE Spec2Model ----
(***************************************************************************)
(* Model of the map cache of bar-lobby (CacheAPI, src/unnamed/part_000).   *)
(*                                                                         *)
(* init() opens the sqlite store, loads every row of table "maps" into the *)
(* in-memory index cachedMaps and starts cacheMaps() without awaiting it.  *)
(* cacheMaps(recacheAll) lists the maps directory, filters the listing and *)
(* runs cacheMap on every selected file, one after the other.  Every await *)
(* of the code is a point where another batch may run, so every action     *)
(* below is one synchronous stretch of the code between two awaits.        *)
(***************************************************************************)
EXTENDS Integers, Sequences, FiniteSets, TLC

\* ------------------------------------------------------------------ bounds
\* number of cacheMaps invocations on the instance (batch 1 is init()'s)
MaxBatches == 2
\* number of changes made to the maps directory while the program runs
MaxFsChanges == 1

Batches == 1..MaxBatches
InitBatch == 1

\* ------------------------------------------------------- files and strings
\* A file name is the sequence of its characters.
SD7 == <<".", "s", "d", "7">>
SDZ == <<".", "s", "d", "z">>
FileA == <<"a">> \o SD7
FileB == <<"b">> \o SDZ
FileC == <<"c", ".", "t", "x", "t">>
FileNames == {FileA, FileB, FileC}

\* String.prototype.endsWith
EndsWith(s, suffix) ==
    /\ Len(s) >= Len(suffix)
    /\ SubSeq(s, Len(s) - Len(suffix) + 1, Len(s)) = suffix

\* the suffix test with its second alternative lost
IsMapFileSd7Only(fileName) == EndsWith(fileName, SD7)

\* the suffix test of cacheMaps
IsMapFile(fileName) == EndsWith(fileName, SD7) \/ EndsWith(fileName, SDZ)

MapsDir == "maps"
\* path.join(this.getMapsPath(), mapFileName)
PathJoin(dirName, fileName) == <<dirName, fileName>>
\* the last segment of a path, as the parser takes it for fileNameWithExt
Basename(p) == p[Len(p)]
\* the name without its extension, as the parser takes it for fileName
StripExt(fileName) == SubSeq(fileName, 1, Len(fileName) - 4)

Undefined == "undefined"
NoMap == [fileNameWithExt |-> <<>>]

\* What the parser returns for the archive at path p holding version v: an
\* odd version has no description in either metadata source, an even one has
\* it in mapInfo; the map units grow with the version.
SpringMap(p, v) ==
    [ fileName        |-> StripExt(Basename(p)),
      fileNameWithExt |-> Basename(p),
      mapInfoDescr    |-> IF v % 2 = 0 THEN "mapinfo" ELSE Undefined,
      smdDescr        |-> Undefined,
      mapWidthUnits   |-> v,
      mapHeightUnits  |-> v + 1 ]

\* a || b on descriptions
OrElse(a, b) == IF a = Undefined THEN b ELSE a

parseMapData(m) ==
    [ fileName        |-> m.fileName,
      fileNameWithExt |-> m.fileNameWithExt,
      description     |-> OrElse(m.mapInfoDescr, m.smdDescr),
      width           |-> m.mapWidthUnits * 2,
      height          |-> m.mapHeightUnits * 2 ]

\* JSON.stringify: the key/value pairs in insertion order, a key whose value
\* is undefined left out.
JSONstringify(r) ==
    <<  <<"fileName", r.fileName>>, <<"fileNameWithExt", r.fileNameWithExt>> >>
    \o (IF "description" \in DOMAIN r /\ r.description # Undefined
        THEN << <<"description", r.description>> >> ELSE <<>>)
    \o << <<"width", r.width>>, <<"height", r.height>> >>

\* JSON.parse: the object with exactly the keys of the text.
JSONparse(text) ==
    [ k \in {text[i][1] : i \in DOMAIN text} |->
        text[CHOOSE i \in DOMAIN text : text[i][1] = k][2] ]

\* obj[key] = value on an object or a table
Put(f, k, v) == [x \in DOMAIN f \cup {k} |-> IF x = k THEN v ELSE f[x]]
\* the row or entry under k as a set: empty when absent
RowOf(f, k) == IF k \in DOMAIN f THEN {f[k]} ELSE {}
Range(s) == {s[i] : i \in DOMAIN s}
Empty == [x \in {} |-> {}]

ImageKinds == <<"texture", "metal", "height", "type">>
\* destPath(name)
destPath(mapData, kind) == <<mapData.fileName, kind>>

\* ------------------------------------------------------------------- state
VARIABLES
    dir,                \* the listing of the maps directory, in readdir order
    content,            \* version of the archive behind every file name
    fsChanges,          \* number of changes made to the directory so far
    store,              \* table maps: filename -> data (JSON text)
    images,             \* image files written under map-images
    preparedStatements, \* keys of this.preparedStatements
    cachedMaps,         \* this.cachedMaps: filename -> MapData
    initPc,             \* position of init()
    pc,                 \* position of every cacheMaps invocation
    recacheAll,         \* its argument
    mapFileNames,       \* its readdir result
    mapsToCache,        \* its work list
    mapsCached,         \* its counter
    map,                \* the parsed map of the item it is processing
    events,             \* what it has emitted on ipcMain, in order
    results,            \* how each of its finished items ended, in order
    pre,                \* store row and index entry of its item's key at item start
    idx0,               \* this.cachedMaps as it was when it computed its work list
    overlapped,         \* did another invocation run while it was running
    endedBefore,        \* the invocations that had ended when it was called
    keysAtDone,         \* the index keys when it ended
    store0,             \* table maps as init() found it
    \* MessagesAPI (src/src/renderer/api/messages/messages.ts)
    users,              \* ids of the users api.session knows
    handlerLists,       \* the three imported handler lists
    call,               \* entry point and message of every call
    mpc,                \* position of the call and of the handleMessage it awaits
    rpc,                \* position of the handleMessage re-run nobody awaits
    requests,           \* number of c.user.list_users_from_ids requests of the call
    invoked,            \* the handlers invoked for the call's message, in order
    battleMessages      \* api.session.battleMessages

envVars == <<dir, content, fsChanges>>
dbVars == <<store, images, preparedStatements>>
batchVars == <<pc, recacheAll, mapFileNames, mapsToCache, mapsCached, map>>
histVars == <<events, results, pre, idx0, overlapped, endedBefore, keysAtDone>>
cacheVars == <<envVars, dbVars, cachedMaps, initPc, batchVars, histVars, store0>>
msgVars == <<users, handlerLists, call, mpc, rpc, requests, invoked, battleMessages>>
vars == <<cacheVars, msgVars>>

\* ------------------------------------------------------------------ events
\* the payload with the number of items left in place of the total
ProgressWithItemsLeft(total, n, fileName) ==
    [ type              |-> "map-cache-progress",
      totalMapsToCache  |-> total - n,
      currentMapsCached |-> n,
      currentMapCaching |-> fileName ]

\* the payload of "map-cache-progress"
Progress(total, n, fileName) ==
    [ type              |-> "map-cache-progress",
      totalMapsToCache  |-> total,
      currentMapsCached |-> n,
      currentMapCaching |-> fileName ]

\* the payload of "map-cached"
Cached(mapData) == [type |-> "map-cached", mapData |-> mapData]

Emit(b, e) == events' = [events EXCEPT ![b] = Append(@, e)]

\* ---------------------------------------------------------------- messages
\* bounds of the message model: calls of the handle... entry points, and
\* user-list requests one call may make
MaxCalls == 2
MaxRequests == 2

Calls == 1..MaxCalls
UserIds == {"alice", "bob"}
Texts == {"!cmd x", "hello"}

\* A handler of a list: the texts its regex matches, whether it has a handler
\* function ("none", or one that finishes at once or later), what
\* text.match(regex) gives, and its validator, if any.
Handler(regex, fn, matchResult, validator) ==
    [regex |-> regex, handler |-> fn, matches |-> matchResult, validator |-> validator]

HCommand == Handler({"!cmd x"}, "async", "groups", "accepts")
HNoFunction == Handler({"!cmd x"}, "none", "groups", "none")
HInvalid == Handler({"!cmd x", "hello"}, "sync", "groups", "rejects")
HNoGroups == Handler({"!cmd x"}, "sync", "nogroups", "accepts")
HAny == Handler({"!cmd x", "hello"}, "sync", "nogroups", "none")

ListNames == {"messageHandlers", "battleAnnouncementHandlers", "directAnnouncementHandlers"}

\* the handler lists the model is run with
HandlerLists ==
    { [messageHandlers |-> <<HCommand, HAny>>,
       battleAnnouncementHandlers |-> <<HNoFunction, HAny>>,
       directAnnouncementHandlers |-> <<HInvalid, HCommand>>],
      [messageHandlers |-> <<HNoGroups, HAny>>,
       battleAnnouncementHandlers |-> <<HAny, HCommand>>,
       directAnnouncementHandlers |-> <<HCommand, HAny>>] }

EntryPoints ==
    {"handleBattleChat", "handlePrivateChat", "handleBattleAnnouncement",
     "handleDirectAnnouncement"}

\* the list an entry point hands to handleMessage
ListOf(entry) ==
    CASE entry \in {"handleBattleChat", "handlePrivateChat"} -> "messageHandlers"
      [] entry = "handleBattleAnnouncement" -> "battleAnnouncementHandlers"
      [] entry = "handleDirectAnnouncement" -> "directAnnouncementHandlers"

\* the entry points that push the message to api.session.battleMessages
Pushes(entry) == entry \in {"handleBattleChat", "handleBattleAnnouncement"}

NoCall == [entry |-> "none", senderUserId |-> "nobody", text |-> "none"]

\* no message has been handled
MsgIdle ==
    /\ users = {}
    /\ handlerLists = [l \in ListNames |-> <<>>]
    /\ call = [c \in Calls |-> NoCall]
    /\ mpc = [c \in Calls |-> "idle"]
    /\ rpc = [c \in Calls |-> "none"]
    /\ requests = [c \in Calls |-> 0]
    /\ invoked = [c \in Calls |-> <<>>]
    /\ battleMessages = <<>>

\* ------------------------------------------------------------------- start
InitDirs == { <<FileC, FileA>>, <<FileA, FileC, FileB>> }
\* what an earlier session can have left in the table
InitStores ==
    { Empty,
      [k \in {FileA} |-> JSONstringify(parseMapData(SpringMap(PathJoin(MapsDir, k), 1)))] }

InFlight(p) == p \notin {"idle", "done", "rejected"}

Init ==
    /\ dir \in InitDirs
    /\ content = [n \in FileNames |-> 1]
    /\ fsChanges = 0
    /\ store \in InitStores
    /\ images = {}
    /\ preparedStatements = {}
    /\ cachedMaps = Empty
    /\ initPc = "start"
    /\ pc = [b \in Batches |-> "idle"]
    /\ recacheAll = [b \in Batches |-> FALSE]
    /\ mapFileNames = [b \in Batches |-> <<>>]
    /\ mapsToCache = [b \in Batches |-> <<>>]
    /\ mapsCached = [b \in Batches |-> 0]
    /\ map = [b \in Batches |-> NoMap]
    /\ events = [b \in Batches |-> <<>>]
    /\ results = [b \in Batches |-> <<>>]
    /\ pre = [b \in Batches |-> <<{}, {}>>]
    /\ idx0 = [b \in Batches |-> Empty]
    /\ overlapped = [b \in Batches |-> FALSE]
    /\ endedBefore = [b \in Batches |-> {}]
    /\ keysAtDone = [b \in Batches |-> {}]
    /\ store0 = store
    /\ MsgIdle

\* ------------------------------------------------------------- environment
\* a file appears in the maps directory
AddFile ==
    \E n \in FileNames \ Range(dir) :
        /\ fsChanges < MaxFsChanges
        /\ fsChanges' = fsChanges + 1
        /\ dir' = Append(dir, n)
        /\ UNCHANGED <<store0, msgVars, content, dbVars, cachedMaps, initPc, batchVars, histVars>>

\* an archive of the maps directory is replaced by a newer version
ModifyFile ==
    \E n \in Range(dir) :
        /\ IsMapFile(n)
        /\ fsChanges < MaxFsChanges
        /\ fsChanges' = fsChanges + 1
        /\ content' = [content EXCEPT ![n] = @ + 1]
        /\ UNCHANGED <<store0, msgVars, dir, dbVars, cachedMaps, initPc, batchVars, histVars>>

\* -------------------------------------------------------------------- init
\* open() and CREATE TABLE IF NOT EXISTS
InitOpen ==
    /\ initPc = "start"
    /\ \E ok \in BOOLEAN : initPc' = IF ok THEN "opened" ELSE "failed"
    /\ UNCHANGED <<store0, msgVars, envVars, dbVars, cachedMaps, batchVars, histVars>>

\* init() calling this.cacheMaps() before it has read the rows
InitLoadBatchFirst ==
    /\ initPc = "opened"
    /\ initPc' = "done"
    /\ preparedStatements' = preparedStatements \cup {"getMaps"}
    /\ cachedMaps' = cachedMaps
    /\ pc' = [pc EXCEPT ![InitBatch] = "readdir"]
    /\ recacheAll' = [recacheAll EXCEPT ![InitBatch] = FALSE]
    /\ UNCHANGED <<store0, msgVars, envVars, store, images, mapFileNames, mapsToCache,
                   mapsCached, map, histVars>>

\* the store cannot be read: init() rejects before it calls cacheMaps
InitLoadFail ==
    /\ initPc = "opened"
    /\ initPc' = "failed"
    /\ UNCHANGED <<store0, msgVars, envVars, dbVars, cachedMaps, batchVars, histVars>>

\* SELECT * FROM maps, every row parsed into cachedMaps, then this.cacheMaps()
\* is called and not awaited: it runs up to its readdir and init() returns.
InitLoad ==
    /\ initPc = "opened"
    /\ initPc' = "done"
    /\ preparedStatements' = preparedStatements \cup {"getMaps"}
    /\ cachedMaps' = [k \in DOMAIN store |-> JSONparse(store[k])]
    /\ pc' = [pc EXCEPT ![InitBatch] = "readdir"]
    /\ recacheAll' = [recacheAll EXCEPT ![InitBatch] = FALSE]
    /\ UNCHANGED <<store0, msgVars, envVars, store, images, mapFileNames, mapsToCache, mapsCached,
                   map, histVars>>

\* --------------------------------------------------------------- cacheMaps
\* a caller invokes cacheMaps(force); nothing in the code makes it wait for a
\* running invocation
CallCacheMaps(b) ==
    /\ initPc = "done"
    /\ b # InitBatch
    /\ pc[b] = "idle"
    /\ pc[b - 1] # "idle"
    /\ \E force \in BOOLEAN : recacheAll' = [recacheAll EXCEPT ![b] = force]
    /\ pc' = [pc EXCEPT ![b] = "readdir"]
    /\ overlapped' = [c \in Batches |->
                        IF c = b THEN \E d \in Batches : InFlight(pc[d])
                        ELSE overlapped[c] \/ InFlight(pc[c])]
    /\ endedBefore' = [endedBefore EXCEPT ![b] = {c \in Batches : ~InFlight(pc[c]) /\ c < b}]
    /\ UNCHANGED <<store0, msgVars, envVars, dbVars, cachedMaps, initPc, mapFileNames, mapsToCache,
                   mapsCached, map, events, results, pre, idx0, keysAtDone>>

\* fs.promises.readdir rejects: the invocation rejects
ReaddirFail(b) ==
    /\ pc[b] = "readdir"
    /\ pc' = [pc EXCEPT ![b] = "rejected"]
    /\ keysAtDone' = [keysAtDone EXCEPT ![b] = DOMAIN cachedMaps]
    /\ UNCHANGED <<store0, msgVars, envVars, dbVars, cachedMaps, initPc, recacheAll, mapFileNames,
                   mapsToCache, mapsCached, map, events, results, pre, idx0,
                   overlapped, endedBefore>>

\* fs.promises.readdir resolves with the listing
Readdir(b) ==
    /\ pc[b] = "readdir"
    /\ mapFileNames' = [mapFileNames EXCEPT ![b] = dir]
    /\ pc' = [pc EXCEPT ![b] = "filter"]
    /\ UNCHANGED <<store0, msgVars, envVars, dbVars, cachedMaps, initPc, recacheAll, mapsToCache,
                   mapsCached, map, events, results, pre, idx0, overlapped,
                   endedBefore, keysAtDone>>

\* the filter without its look at the index
ToCacheEveryMapFile(listing, cachedMapFileNames, force) ==
    SelectSeq(listing, LAMBDA fileName : IsMapFile(fileName))

\* the filter of cacheMaps
ToCache(listing, cachedMapFileNames, force) ==
    SelectSeq(listing,
              LAMBDA fileName :
                  (force \/ fileName \notin cachedMapFileNames) /\ IsMapFile(fileName))

\* The head of the for loop with n items behind it: either the loop is over
\* and the invocation resolves, or the progress event is emitted and cacheMap
\* is called, which runs up to its parseMap.  A listener that throws makes
\* emit throw, and with it cacheMaps.
LoopHead(b, n, work) ==
    IF n < Len(work)
    THEN /\ Emit(b, Progress(Len(work), n, work[n + 1]))
         /\ \E throws \in BOOLEAN :
              IF throws
              THEN /\ pc' = [pc EXCEPT ![b] = "rejected"]
                   /\ keysAtDone' = [keysAtDone EXCEPT ![b] = DOMAIN cachedMaps]
                   /\ UNCHANGED pre
              ELSE /\ pc' = [pc EXCEPT ![b] = "parse"]
                   /\ pre' = [pre EXCEPT ![b] = <<RowOf(store, work[n + 1]),
                                                  RowOf(cachedMaps, work[n + 1])>>]
                   /\ UNCHANGED keysAtDone
    ELSE /\ pc' = [pc EXCEPT ![b] = "done"]
         /\ keysAtDone' = [keysAtDone EXCEPT ![b] = DOMAIN cachedMaps]
         /\ UNCHANGED <<events, pre>>

\* after readdir: the keys of cachedMaps are read, the work list is computed
\* and the loop is entered
Filter(b) ==
    /\ pc[b] = "filter"
    /\ LET work == ToCache(mapFileNames[b], DOMAIN cachedMaps, recacheAll[b])
       IN  /\ mapsToCache' = [mapsToCache EXCEPT ![b] = work]
           /\ mapsCached' = [mapsCached EXCEPT ![b] = 0]
           /\ idx0' = [idx0 EXCEPT ![b] = cachedMaps]
           /\ LoopHead(b, 0, work)
    /\ UNCHANGED <<store0, msgVars, envVars, dbVars, cachedMaps, initPc, recacheAll, mapFileNames,
                   map, results, overlapped, endedBefore>>

\* the file cacheMap is working on
Item(b) == mapsToCache[b][mapsCached[b] + 1]

\* cacheMap without its try/catch: an error rejects cacheMap, and cacheMaps
\* with it
EndItemUncaught(b, how) ==
    /\ results' = [results EXCEPT ![b] = Append(@, how)]
    /\ pc' = [pc EXCEPT ![b] = IF how = "cached" THEN "return" ELSE "rejected"]
    /\ map' = [map EXCEPT ![b] = NoMap]

\* cacheMap returns: by its last statement ("cached"), or by its catch, entered
\* before the index entry was assigned ("failed") or after it ("listener")
EndItem(b, how) ==
    /\ results' = [results EXCEPT ![b] = Append(@, how)]
    /\ pc' = [pc EXCEPT ![b] = "return"]
    /\ map' = [map EXCEPT ![b] = NoMap]

\* ---------------------------------------------------------------- cacheMap
ParseFail(b) ==
    /\ pc[b] = "parse"
    /\ EndItem(b, "failed")
    /\ UNCHANGED <<store0, msgVars, envVars, dbVars, cachedMaps, initPc, recacheAll, mapFileNames,
                   mapsToCache, mapsCached, events, pre, idx0, overlapped,
                   endedBefore, keysAtDone>>

\* parseMap resolves; the first image write is started
Parse(b) ==
    /\ pc[b] = "parse"
    /\ map' = [map EXCEPT ![b] = SpringMap(PathJoin(MapsDir, Item(b)), content[Item(b)])]
    /\ pc' = [pc EXCEPT ![b] = ImageKinds[1]]
    /\ UNCHANGED <<store0, msgVars, envVars, dbVars, cachedMaps, initPc, recacheAll, mapFileNames,
                   mapsToCache, mapsCached, histVars>>

KindIndex(k) == CHOOSE i \in DOMAIN ImageKinds : ImageKinds[i] = k

WriteImageFail(b) ==
    /\ pc[b] \in Range(ImageKinds)
    /\ EndItem(b, "failed")
    /\ UNCHANGED <<store0, msgVars, envVars, dbVars, cachedMaps, initPc, recacheAll, mapFileNames,
                   mapsToCache, mapsCached, events, pre, idx0, overlapped,
                   endedBefore, keysAtDone>>

\* the image writes started together, the first to resolve going on to the
\* store write
WriteImageUnordered(b) ==
    /\ pc[b] \in Range(ImageKinds)
    /\ images' = images \cup {destPath(parseMapData(map[b]), pc[b])}
    /\ pc' = [pc EXCEPT ![b] = "prepare"]
    /\ UNCHANGED <<store0, msgVars, envVars, store, preparedStatements, cachedMaps,
                   initPc, recacheAll, mapFileNames, mapsToCache, mapsCached, map,
                   histVars>>

\* one writeAsync resolves; the next one, or prepareStatement, is started
WriteImage(b) ==
    /\ pc[b] \in Range(ImageKinds)
    /\ LET i == KindIndex(pc[b])
       IN  /\ images' = images \cup {destPath(parseMapData(map[b]), pc[b])}
           /\ pc' = [pc EXCEPT ![b] = IF i < Len(ImageKinds) THEN ImageKinds[i + 1]
                                      ELSE "prepare"]
    /\ UNCHANGED <<store0, msgVars, envVars, store, preparedStatements, cachedMaps, initPc, recacheAll,
                   mapFileNames, mapsToCache, mapsCached, map, histVars>>

PrepareFail(b) ==
    /\ pc[b] = "prepare"
    /\ "addMap" \notin preparedStatements
    /\ EndItem(b, "failed")
    /\ UNCHANGED <<store0, msgVars, envVars, dbVars, cachedMaps, initPc, recacheAll, mapFileNames,
                   mapsToCache, mapsCached, events, pre, idx0, overlapped,
                   endedBefore, keysAtDone>>

\* prepareStatement("addMap") resolves, from the cache or from db.prepare
Prepare(b) ==
    /\ pc[b] = "prepare"
    /\ preparedStatements' = preparedStatements \cup {"addMap"}
    /\ pc' = [pc EXCEPT ![b] = "addMap"]
    /\ UNCHANGED <<store0, msgVars, envVars, store, images, cachedMaps, initPc, recacheAll,
                   mapFileNames, mapsToCache, mapsCached, map, histVars>>

AddMapFail(b) ==
    /\ pc[b] = "addMap"
    /\ EndItem(b, "failed")
    /\ UNCHANGED <<store0, msgVars, envVars, dbVars, cachedMaps, initPc, recacheAll, mapFileNames,
                   mapsToCache, mapsCached, events, pre, idx0, overlapped,
                   endedBefore, keysAtDone>>

\* the key taken from the name without its extension
KeyOfFileName(mapData) == mapData.fileName

\* the key a record is stored under
KeyOf(mapData) == mapData.fileNameWithExt

\* REPLACE INTO maps takes effect in the database; the code is still waiting
AddMap(b) ==
    /\ pc[b] = "addMap"
    /\ LET mapData == parseMapData(map[b])
       IN  store' = Put(store, KeyOf(mapData), JSONstringify(mapData))
    /\ pc' = [pc EXCEPT ![b] = "written"]
    /\ UNCHANGED <<store0, msgVars, envVars, images, preparedStatements, cachedMaps, initPc,
                   recacheAll, mapFileNames, mapsToCache, mapsCached, map, histVars>>

\* query.get has resolved: the index entry is assigned and "map-cached" is
\* emitted; a listener that throws lands in the catch of cacheMap
Commit(b) ==
    /\ pc[b] = "written"
    /\ LET mapData == parseMapData(map[b])
       IN  /\ cachedMaps' = Put(cachedMaps, KeyOf(mapData), mapData)
           /\ Emit(b, Cached(mapData))
    /\ \E throws \in BOOLEAN : EndItem(b, IF throws THEN "listener" ELSE "cached")
    /\ UNCHANGED <<store0, msgVars, envVars, dbVars, initPc, recacheAll, mapFileNames, mapsToCache,
                   mapsCached, pre, idx0, overlapped, endedBefore, keysAtDone>>

\* the loop taking a failed item again instead of going on
AfterItemRetrying(b) ==
    /\ pc[b] = "return"
    /\ LET n == IF results[b][Len(results[b])] = "failed" THEN mapsCached[b]
                ELSE mapsCached[b] + 1
       IN  /\ mapsCached' = [mapsCached EXCEPT ![b] = n]
           /\ LoopHead(b, n, mapsToCache[b])
    /\ UNCHANGED <<store0, msgVars, envVars, dbVars, cachedMaps, initPc, recacheAll,
                   mapFileNames, mapsToCache, map, results, idx0, overlapped,
                   endedBefore>>

\* back in cacheMaps: mapsCached++ and the next turn of the loop
AfterItem(b) ==
    /\ pc[b] = "return"
    /\ mapsCached' = [mapsCached EXCEPT ![b] = @ + 1]
    /\ LoopHead(b, mapsCached[b] + 1, mapsToCache[b])
    /\ UNCHANGED <<store0, msgVars, envVars, dbVars, cachedMaps, initPc, recacheAll, mapFileNames,
                   mapsToCache, map, results, idx0, overlapped, endedBefore>>

\* ------------------------------------------------------------ specification
Next ==
    \/ AddFile
    \/ ModifyFile
    \/ InitOpen
    \/ InitLoadFail
    \/ InitLoad
    \/ \E b \in Batches : CallCacheMaps(b)
    \/ \E b \in Batches : ReaddirFail(b)
    \/ \E b \in Batches : Readdir(b)
    \/ \E b \in Batches : Filter(b)
    \/ \E b \in Batches : ParseFail(b)
    \/ \E b \in Batches : Parse(b)
    \/ \E b \in Batches : WriteImageFail(b)
    \/ \E b \in Batches : WriteImage(b)
    \/ \E b \in Batches : PrepareFail(b)
    \/ \E b \in Batches : Prepare(b)
    \/ \E b \in Batches : AddMapFail(b)
    \/ \E b \in Batches : AddMap(b)
    \/ \E b \in Batches : Commit(b)
    \/ \E b \in Batches : AfterItem(b)

Spec == Init /\ [][Next]_vars

\* ------------------------------------------------------------- MessagesAPI
\* the cache as it is while messages are handled
CacheIdle ==
    /\ dir = <<FileC, FileA>>
    /\ content = [n \in FileNames |-> 1]
    /\ fsChanges = 0
    /\ store = Empty
    /\ images = {}
    /\ preparedStatements = {}
    /\ cachedMaps = Empty
    /\ initPc = "start"
    /\ pc = [b \in Batches |-> "idle"]
    /\ recacheAll = [b \in Batches |-> FALSE]
    /\ mapFileNames = [b \in Batches |-> <<>>]
    /\ mapsToCache = [b \in Batches |-> <<>>]
    /\ mapsCached = [b \in Batches |-> 0]
    /\ map = [b \in Batches |-> NoMap]
    /\ events = [b \in Batches |-> <<>>]
    /\ results = [b \in Batches |-> <<>>]
    /\ pre = [b \in Batches |-> <<{}, {}>>]
    /\ idx0 = [b \in Batches |-> Empty]
    /\ overlapped = [b \in Batches |-> FALSE]
    /\ endedBefore = [b \in Batches |-> {}]
    /\ keysAtDone = [b \in Batches |-> {}]
    /\ store0 = Empty

MsgInit ==
    /\ CacheIdle
    /\ users \in SUBSET UserIds
    /\ handlerLists \in HandlerLists
    /\ call = [c \in Calls |-> NoCall]
    /\ mpc = [c \in Calls |-> "idle"]
    /\ rpc = [c \in Calls |-> "none"]
    /\ requests = [c \in Calls |-> 0]
    /\ invoked = [c \in Calls |-> <<>>]
    /\ battleMessages = <<>>

\* api.session.getUserById(message.senderUserId)
getUserById(known, id) == IF id \in known THEN id ELSE Undefined

\* the loop going on to the next handler where it returns
RECURSIVE DispatchContinuing(_, _, _)
DispatchContinuing(handlers, text, i) ==
    IF i > Len(handlers) THEN 0
    ELSE LET handler == handlers[i]
         IN  IF text \notin handler.regex THEN DispatchContinuing(handlers, text, i + 1)
             ELSE IF handler.handler = "none" THEN DispatchContinuing(handlers, text, i + 1)
             ELSE IF handler.matches = "null" THEN DispatchContinuing(handlers, text, i + 1)
             ELSE IF handler.validator # "none" /\ handler.matches # "groups"
                  THEN DispatchContinuing(handlers, text, i + 1)
             ELSE IF handler.validator = "rejects"
                  THEN DispatchContinuing(handlers, text, i + 1)
             ELSE i

\* the for loop of handleMessage from handler i on: the index of the handler
\* it invokes, 0 when it invokes none
RECURSIVE Dispatch(_, _, _)
Dispatch(handlers, text, i) ==
    IF i > Len(handlers) THEN 0
    ELSE LET handler == handlers[i]
         IN  IF text \notin handler.regex THEN Dispatch(handlers, text, i + 1)
             ELSE IF handler.handler = "none" THEN 0
             ELSE IF handler.matches = "null" THEN 0
             ELSE IF handler.validator # "none" /\ handler.matches # "groups" THEN 0
             ELSE IF handler.validator = "rejects" THEN 0
             ELSE i

\* handleMessage from its call to its first await: a known sender has the
\* handlers run, an unknown one has the user requested. The run that the
\* entry point awaits is followed in mpc; a re-run is followed in rpc, and
\* the run that started it returns.
Run(c, msg, awaited) ==
    LET handlers == handlerLists[ListOf(msg.entry)]
        sender == getUserById(users, msg.senderUserId)
        i == IF sender = Undefined THEN 0 ELSE Dispatch(handlers, msg.text, 1)
        p == IF sender = Undefined THEN "request"
             ELSE IF i = 0 THEN "ended"
             ELSE IF handlers[i].handler = "async" THEN "handler" ELSE "ended"
    IN  /\ sender = Undefined => requests[c] < MaxRequests
        /\ invoked' = [invoked EXCEPT ![c] =
                          Append(@, [known |-> sender # Undefined, handler |-> i])]
        /\ requests' = [requests EXCEPT ![c] = IF sender = Undefined THEN @ + 1 ELSE @]
        /\ IF awaited
           THEN /\ mpc' = [mpc EXCEPT ![c] = IF p = "ended" THEN "resolved" ELSE p]
                /\ rpc' = rpc
           ELSE /\ mpc' = [mpc EXCEPT ![c] = IF @ = "tick" THEN "resolved" ELSE @]
                /\ rpc' = [rpc EXCEPT ![c] = p]

\* a user becomes known to the session
UserJoins ==
    \E u \in UserIds \ users :
        /\ users' = users \cup {u}
        /\ UNCHANGED <<cacheVars, handlerLists, call, mpc, rpc, requests, invoked,
                       battleMessages>>

\* a user is dropped from the session
UserLeaves ==
    \E u \in users :
        /\ users' = users \ {u}
        /\ UNCHANGED <<cacheVars, handlerLists, call, mpc, rpc, requests, invoked,
                       battleMessages>>

\* handleBattleChat, handlePrivateChat, handleBattleAnnouncement or
\* handleDirectAnnouncement is called with a message
HandleCall(c) ==
    \E entry \in EntryPoints, id \in UserIds, text \in Texts :
        LET msg == [entry |-> entry, senderUserId |-> id, text |-> text]
        IN  /\ mpc[c] = "idle"
            /\ \A d \in Calls : d < c => mpc[d] # "idle"
            /\ call' = [call EXCEPT ![c] = msg]
            /\ Run(c, msg, TRUE)
            /\ UNCHANGED <<cacheVars, users, handlerLists, battleMessages>>

\* api.comms.request("c.user.list_users_from_ids") resolves; the sender is
\* among the users of the response or not
RequestDone(c) ==
    \E awaited, found \in BOOLEAN :
        /\ IF awaited THEN mpc[c] = "request" ELSE rpc[c] = "request"
        /\ users' = IF found THEN users \cup {call[c].senderUserId} ELSE users
        /\ IF awaited
           THEN mpc' = [mpc EXCEPT ![c] = "tick"] /\ rpc' = rpc
           ELSE rpc' = [rpc EXCEPT ![c] = "tick"] /\ mpc' = mpc
        /\ UNCHANGED <<cacheVars, handlerLists, call, requests, invoked, battleMessages>>

\* the request rejects, and with it the handleMessage that awaits it
RequestFail(c) ==
    \E awaited \in BOOLEAN :
        /\ IF awaited THEN mpc[c] = "request" ELSE rpc[c] = "request"
        /\ IF awaited
           THEN mpc' = [mpc EXCEPT ![c] = "rejected"] /\ rpc' = rpc
           ELSE rpc' = [rpc EXCEPT ![c] = "rejected"] /\ mpc' = mpc
        /\ UNCHANGED <<cacheVars, users, handlerLists, call, requests, invoked,
                       battleMessages>>

\* nextTick resolves: handleMessage calls itself without awaiting the call,
\* and returns
Rerun(c) ==
    \E awaited \in BOOLEAN :
        /\ IF awaited THEN mpc[c] = "tick" ELSE rpc[c] = "tick"
        /\ Run(c, call[c], FALSE)
        /\ UNCHANGED <<cacheVars, users, handlerLists, call, battleMessages>>

\* the promise of the invoked handler settles
HandlerDone(c) ==
    \E awaited, ok \in BOOLEAN :
        /\ IF awaited THEN mpc[c] = "handler" ELSE rpc[c] = "handler"
        /\ IF awaited
           THEN mpc' = [mpc EXCEPT ![c] = IF ok THEN "resolved" ELSE "rejected"] /\ rpc' = rpc
           ELSE rpc' = [rpc EXCEPT ![c] = IF ok THEN "ended" ELSE "rejected"] /\ mpc' = mpc
        /\ UNCHANGED <<cacheVars, users, handlerLists, call, requests, invoked,
                       battleMessages>>

\* the entry point goes on after its await
AfterHandleMessage(c) ==
    /\ mpc[c] = "resolved"
    /\ mpc' = [mpc EXCEPT ![c] = "done"]
    /\ battleMessages' = IF Pushes(call[c].entry) THEN Append(battleMessages, c)
                         ELSE battleMessages
    /\ UNCHANGED <<cacheVars, users, handlerLists, call, rpc, requests, invoked>>

MsgNext ==
    \/ UserJoins
    \/ UserLeaves
    \/ \E c \in Calls : HandleCall(c)
    \/ \E c \in Calls : RequestDone(c)
    \/ \E c \in Calls : RequestFail(c)
    \/ \E c \in Calls : Rerun(c)
    \/ \E c \in Calls : HandlerDone(c)
    \/ \E c \in Calls : AfterHandleMessage(c)

MsgSpec == MsgInit /\ [][MsgNext]_vars


\* ------------------------------------------------------------------ claims
ItemSteps == Range(ImageKinds) \cup {"parse", "prepare", "addMap", "written"}

\* the invocation has computed its work list
Filtered(b) ==
    /\ pc[b] \notin {"idle", "readdir", "filter"}
    /\ pc[b] = "rejected" => events[b] # <<>>

\* the items of b whose record was written to the store and the index
Committed(b) ==
    {mapsToCache[b][i] : i \in {j \in DOMAIN results[b] : results[b][j] # "failed"}}

\* the recognized archives of b's listing that the index did not hold when b
\* computed its work list
NewArchives(b) ==
    {n \in Range(mapFileNames[b]) :
        (EndsWith(n, SD7) \/ EndsWith(n, SDZ)) /\ n \notin DOMAIN idx0[b]}

\* no invocation has been made after b
LastCalled(b) == \A c \in Batches : c > b => pc[c] = "idle"

\* b2 is an incremental run made after the incremental run b1 had run to
\* completion, with the same listing, nothing else running during either of
\* them or between them
SecondRun(b1, b2) ==
    /\ b1 # b2
    /\ ~recacheAll[b1] /\ ~recacheAll[b2]
    /\ pc[b1] = "done"
    /\ b1 \in endedBefore[b2]
    /\ \A c \in endedBefore[b2] \ {b1} : c \in endedBefore[b1]
    /\ ~overlapped[b1] /\ ~overlapped[b2]
    /\ Filtered(b2)
    /\ mapFileNames[b1] = mapFileNames[b2]

\* C1 as stated: when cacheMaps(false) is run to completion twice in a row
\* with no change to the directory in between, the work list of the second
\* run is empty and the index holds the same keys after it as after the first.
C1_SecondRunDoesNothing ==
    \A b1, b2 \in Batches :
        SecondRun(b1, b2) =>
            /\ mapsToCache[b2] = <<>>
            /\ pc[b2] = "done" => keysAtDone[b2] = keysAtDone[b1]

\* C1 as amended: the work list of the second run is exactly the items of
\* the first run that ended in its catch before their record was written, in
\* the same order (so it is empty when the first run cached every item), and
\* the index keys after the second run are those after the first run together
\* with the keys the second run wrote.
C1_SecondRunRetriesFailures ==
    \A b1, b2 \in Batches :
        SecondRun(b1, b2) =>
            /\ mapsToCache[b2] =
                 SelectSeq(mapsToCache[b1], LAMBDA n : n \notin Committed(b1))
            /\ pc[b2] = "done" => keysAtDone[b2] = keysAtDone[b1] \cup Committed(b2)

\* a second run that has retried a failed item, after a first run that cached
\* another one
C1_Witness ==
    \E b1, b2 \in Batches :
        /\ SecondRun(b1, b2)
        /\ pc[b2] = "done"
        /\ mapsToCache[b2] # <<>>
        /\ Committed(b1) # {}

\* C2: when exactly one recognized archive of the listing is missing from the
\* index, the work list of cacheMaps(false) is that one archive, and while
\* nothing else runs every entry the index held before keeps its value.
C2_Incremental ==
    \A b \in Batches :
        (~recacheAll[b] /\ Filtered(b) /\ Cardinality(NewArchives(b)) = 1) =>
            /\ Len(mapsToCache[b]) = 1
            /\ Range(mapsToCache[b]) = NewArchives(b)
            /\ (~overlapped[b] /\ LastCalled(b)) =>
                 \A k \in DOMAIN idx0[b] :
                     k \in DOMAIN cachedMaps /\ cachedMaps[k] = idx0[b][k]

\* an incremental run over a non-empty index has cached the one new archive
C2_Witness ==
    \E b \in Batches :
        /\ ~recacheAll[b] /\ pc[b] = "done"
        /\ Cardinality(NewArchives(b)) = 1
        /\ DOMAIN idx0[b] # {}
        /\ results[b] = <<"cached">>
        /\ NewArchives(b) \subseteq DOMAIN cachedMaps

\* C3, the work list: the work list of cacheMaps(true) is the listing
\* restricted to the names ending in .sd7 or .sdz, whatever the index holds,
\* and no invocation ever works on a name with another suffix.
C3_WorkList ==
    \A b \in Batches :
        /\ (recacheAll[b] /\ Filtered(b)) =>
              Range(mapsToCache[b]) =
                {n \in Range(mapFileNames[b]) : EndsWith(n, SD7) \/ EndsWith(n, SDZ)}
        /\ pc[b] \in ItemSteps \cup {"return"} =>
              EndsWith(Item(b), SD7) \/ EndsWith(Item(b), SDZ)

\* C3, the replacement: the store write of an item puts its record under the
\* item's own file name, and so does the index assignment that follows.
C3_Replaces ==
    \A b \in Batches :
        /\ (pc[b] = "addMap" /\ pc'[b] = "written") =>
              /\ Item(b) \in DOMAIN store'
              /\ store'[Item(b)] = JSONstringify(parseMapData(map[b]))
        /\ (pc[b] = "written" /\ pc'[b] = "return") =>
              /\ Item(b) \in DOMAIN cachedMaps'
              /\ cachedMaps'[Item(b)] = parseMapData(map[b])
              /\ cachedMaps'[Item(b)].fileNameWithExt = Item(b)

\* C3: forced re-cache works on every recognized archive and on nothing else,
\* and every item that succeeds replaces the record under its own key.
C3_ForcedRecache == [](C3_WorkList) /\ [][C3_Replaces]_vars

\* a forced run over a listing with an unrecognized file has replaced a
\* record the index already held
C3_Witness ==
    \E b \in Batches :
        /\ recacheAll[b] /\ pc[b] = "done"
        /\ \E n \in Range(mapFileNames[b]) : ~IsMapFile(n)
        /\ \E i \in DOMAIN results[b] :
              /\ results[b][i] = "cached"
              /\ mapsToCache[b][i] \in DOMAIN idx0[b]
              /\ cachedMaps[mapsToCache[b][i]] # idx0[b][mapsToCache[b][i]]

\* C4, states: an invocation that resolved has attempted every item of its
\* work list, the index holds a record for every item that succeeded, and
\* (while nothing else ran) the entry of an item that failed is what it was.
C4_AtEnd ==
    \A b \in Batches :
        pc[b] = "done" =>
            /\ Len(results[b]) = Len(mapsToCache[b])
            /\ \A i \in DOMAIN results[b] :
                 /\ results[b][i] = "cached" => mapsToCache[b][i] \in keysAtDone[b]
                 /\ (results[b][i] = "failed" /\ ~overlapped[b] /\ LastCalled(b)) =>
                      RowOf(cachedMaps, mapsToCache[b][i]) = RowOf(idx0[b], mapsToCache[b][i])

\* C4, steps: a failure of the extraction, of an image write or of the store
\* write never makes the invocation reject, and changes neither table.
C4_Caught ==
    \A b \in Batches :
        (pc[b] \in ItemSteps \ {"written"} /\ pc'[b] # pc[b]) =>
            /\ pc'[b] # "rejected"
            /\ cachedMaps' = cachedMaps
            /\ pc'[b] = "return" => (store' = store /\ results'[b] = Append(results[b], "failed"))

\* C4: failures of items are isolated.
C4_FailureIsolation == [](C4_AtEnd) /\ [][C4_Caught]_vars

\* an invocation has resolved after an item failed and a later one was cached
C4_Witness ==
    \E b \in Batches :
        /\ pc[b] = "done"
        /\ \E i, j \in DOMAIN results[b] :
              i < j /\ results[b][i] = "failed" /\ results[b][j] = "cached"

\* the record the index holds under k has the content of the store row
SameRecord(k) == k \in DOMAIN store /\ JSONstringify(cachedMaps[k]) = store[k]

\* C5 as stated: whenever cacheMap has ended in its catch, the store row and
\* the index entry of the item's key are what they were when the item started.
C5_FailedItemLeavesState ==
    \A b \in Batches :
        (pc[b] = "return" /\ results[b][Len(results[b])] # "cached") =>
            /\ RowOf(store, Item(b)) = pre[b][1]
            /\ RowOf(cachedMaps, Item(b)) = pre[b][2]

\* C6 as stated: in every state every key of the index is a key of the store
\* and the two records have the same content.
C6_IndexIsViewOfStore == \A k \in DOMAIN cachedMaps : SameRecord(k)

\* C7 as stated: once init() has returned, whenever no item is in flight the
\* index and the store have the same keys and the same records.
C7_IndexStoreCoherent ==
    (initPc = "done" /\ \A b \in Batches : pc[b] \notin ItemSteps) =>
        /\ DOMAIN cachedMaps = DOMAIN store
        /\ \A k \in DOMAIN cachedMaps : SameRecord(k)

C9_ItemCompletedOrdering ==
    \A b \in Batches : \A i \in DOMAIN events[b] :
        events[b][i].type = "map-cached" =>
            LET key == events[b][i].mapData.fileNameWithExt
            IN  /\ \E j \in 1..(i - 1) :
                     /\ events[b][j].type = "map-cache-progress"
                     /\ events[b][j].currentMapCaching = key
                /\ key \in DOMAIN store
                /\ key \in DOMAIN cachedMaps
                /\ \A j \in DOMAIN results[b] :
                     mapsToCache[b][j] = key => results[b][j] = "cached"

\* C10 as stated: currentMapsCached of every map-cache-progress event is the
\* number of items of the invocation persisted and indexed before it, which
\* is the number of map-cached events before it.
C10_CompletedCount ==
    \A b \in Batches : \A i \in DOMAIN events[b] :
        events[b][i].type = "map-cache-progress" =>
            events[b][i].currentMapsCached =
                Cardinality({j \in 1..(i - 1) : events[b][j].type = "map-cached"})

\* the invocation was rejected by readdir
ReaddirRejected(b) == pc[b] = "rejected" /\ events[b] = <<>>

\* C11 as stated: at most one invocation is processing items at any moment.
C11_OneBatchAtATime ==
    Cardinality({b \in Batches : pc[b] \in ItemSteps \cup {"return"}}) <= 1

\* C12 as stated: when the directory cannot be listed the invocation has
\* processed no item and emitted no event, and when init() started it, init()
\* has failed to its caller.
C12_ListingFailureReachesCaller ==
    \A b \in Batches :
        ReaddirRejected(b) =>
            /\ results[b] = <<>> /\ mapsToCache[b] = <<>> /\ events[b] = <<>>
            /\ b = InitBatch => initPc = "failed"

\* the four image files of the item b is working on
ItemImages(b) == {destPath(parseMapData(map[b]), ImageKinds[i]) : i \in DOMAIN ImageKinds}

\* C13, states: the store write of an item is under way only with its four
\* images written, and its index assignment only with its row in the store.
C13_Order ==
    \A b \in Batches :
        /\ pc[b] \in {"prepare", "addMap", "written"} => ItemImages(b) \subseteq images
        /\ pc[b] = "written" => Item(b) \in DOMAIN store

\* C13, steps: the table changes only in the step of an item past its image
\* writes, the index only in the step of an item past its store write, and a
\* failed image write is followed by neither.
C13_Steps ==
    /\ store' # store => \E b \in Batches : pc[b] = "addMap" /\ pc'[b] = "written"
    /\ (cachedMaps' # cachedMaps /\ initPc = "done") =>
            \E b \in Batches : pc[b] = "written" /\ pc'[b] = "return"
    /\ \A b \in Batches :
          (pc[b] \in Range(ImageKinds) /\ pc'[b] = "return") =>
              /\ store' = store /\ cachedMaps' = cachedMaps
              /\ results'[b] = Append(results[b], "failed")

\* C13: per item, images, then store, then index.
C13_CommitOrder == [](C13_Order) /\ [][C13_Steps]_vars

\* an item has its row in the store and its index assignment pending, while
\* an earlier item of the same invocation failed
C13_Witness ==
    \E b \in Batches :
        /\ pc[b] = "written"
        /\ ItemImages(b) \subseteq images
        /\ "failed" \in Range(results[b])

\* C14 as stated: a record that is in the index and the store is never
\* removed, and its value in either changes only in a step of an item of a
\* cacheMaps(true) invocation.
C14_Step ==
    \A k \in DOMAIN cachedMaps \cap DOMAIN store :
        /\ k \in DOMAIN cachedMaps' /\ k \in DOMAIN store'
        /\ (cachedMaps'[k] # cachedMaps[k] \/ store'[k] # store[k]) =>
              \E b \in Batches :
                  /\ recacheAll[b]
                  /\ pc[b] \in {"addMap", "written"} /\ pc'[b] # pc[b]
                  /\ Item(b) = k

C14_ReplacedOnlyByForce == [][C14_Step]_vars

\* C15: the work list of the invocation init() starts holds no key that was
\* in the table at startup, the index holds every row of the table from the
\* moment init() has returned, and when init() fails no invocation is started.
C15_StartupOrder ==
    /\ \A i \in DOMAIN mapsToCache[InitBatch] : mapsToCache[InitBatch][i] \notin DOMAIN store0
    /\ initPc = "done" => DOMAIN store0 \subseteq DOMAIN cachedMaps
    /\ initPc # "done" => \A b \in Batches : pc[b] = "idle"

\* the invocation of init() has cached a new archive next to one the table
\* held at startup
C15_Witness ==
    /\ store0 # Empty
    /\ pc[InitBatch] = "done"
    /\ results[InitBatch] = <<"cached">>
    /\ \E n \in Range(mapFileNames[InitBatch]) : n \in DOMAIN store0

\* the map-cache-progress events of b, in order
ProgressEvents(b) == SelectSeq(events[b], LAMBDA e : e.type = "map-cache-progress")

\* C16: the work list keeps the order of the listing and has no name twice;
\* the k-th map-cache-progress event is that of the k-th item and carries
\* k - 1; it is emitted with the k - 1 items before it ended, so there is
\* never more than one started item that has not ended; an invocation that
\* has returned has started every item of its work list.
C16_InListingOrder ==
    \A b \in Batches :
        Filtered(b) =>
            /\ mapsToCache[b] =
                 SelectSeq(mapFileNames[b], LAMBDA n : n \in Range(mapsToCache[b]))
            /\ Cardinality(Range(mapsToCache[b])) = Len(mapsToCache[b])
            /\ Len(ProgressEvents(b)) <= Len(mapsToCache[b])
            /\ \A k \in DOMAIN ProgressEvents(b) :
                 /\ ProgressEvents(b)[k].currentMapCaching = mapsToCache[b][k]
                 /\ ProgressEvents(b)[k].currentMapsCached = k - 1
            /\ Len(results[b]) <= Len(ProgressEvents(b))
            /\ Len(ProgressEvents(b)) <= Len(results[b]) + 1
            /\ pc[b] = "done" => Len(ProgressEvents(b)) = Len(mapsToCache[b])

\* an invocation has ended after a failed first item and a second item
C16_Witness ==
    \E b \in Batches :
        /\ pc[b] = "done"
        /\ Len(results[b]) = 2
        /\ results[b][1] = "failed"
        /\ Len(ProgressEvents(b)) = 2

\* C17 as stated: a listener that throws makes no invocation reject and no
\* written item count as failed.
C17_ListenerFailuresIgnored ==
    \A b \in Batches :
        /\ pc[b] = "rejected" => events[b] = <<>>
        /\ "listener" \notin Range(results[b])

\* the number of times the message of call c is in api.session.battleMessages
Appended(c) == Cardinality({i \in DOMAIN battleMessages : battleMessages[i] = c})

\* no run of handleMessage for the message of call c is under way
DispatchFinished(c) == rpc[c] \in {"none", "ended", "rejected"}

\* C18 as stated: the message of a handleBattleChat or
\* handleBattleAnnouncement call is never in battleMessages twice, is there
\* once when the call has returned, and is there only with the dispatch for
\* it finished, re-runs included.
C18_AppendAfterHandling ==
    \A c \in Calls :
        Pushes(call[c].entry) =>
            /\ Appended(c) <= 1
            /\ mpc[c] = "done" => Appended(c) = 1
            /\ Appended(c) = 1 => DispatchFinished(c)

\* the first handler of the list whose regex matches the text, 0 if none does
FirstMatch(handlers, text) ==
    IF \E i \in DOMAIN handlers : text \in handlers[i].regex
    THEN CHOOSE i \in DOMAIN handlers :
            /\ text \in handlers[i].regex
            /\ \A j \in 1..(i - 1) : text \notin handlers[j].regex
    ELSE 0

\* the handler has a function and its match passes its validation
Invocable(handler) ==
    /\ handler.handler # "none"
    /\ handler.matches # "null"
    /\ handler.validator # "none" => (handler.matches = "groups" /\ handler.validator = "accepts")

\* C19: every run of handleMessage invokes at most one handler; it invokes
\* none when the sender is unknown to the session, and requests the user
\* then; with a known sender it invokes the first handler whose regex matches
\* the text when that one has a function and passes validation, and none
\* otherwise.
C19_FirstMatchOfKnownSender ==
    \A c \in Calls :
        /\ Len(invoked[c]) <= requests[c] + 1
        /\ \A r \in DOMAIN invoked[c] :
             LET run == invoked[c][r]
                 handlers == handlerLists[ListOf(call[c].entry)]
                 first == FirstMatch(handlers, call[c].text)
             IN  /\ ~run.known => (run.handler = 0 /\ requests[c] >= r)
                 /\ run.known =>
                      run.handler = IF first # 0 /\ Invocable(handlers[first]) THEN first ELSE 0

\* a re-run has invoked a handler after the sender became known, and a run
\* has invoked nothing because the first matching handler has no function or
\* fails validation, with an invocable handler behind it in the list
C19_Witness ==
    /\ \E c \in Calls :
          /\ Len(invoked[c]) = 2
          /\ ~invoked[c][1].known
          /\ invoked[c][2].known /\ invoked[c][2].handler # 0
    /\ \E c \in Calls : \E r \in DOMAIN invoked[c] :
          LET handlers == handlerLists[ListOf(call[c].entry)]
          IN  /\ invoked[c][r].known /\ invoked[c][r].handler = 0
              /\ \E j \in DOMAIN handlers :
                    call[c].text \in handlers[j].regex /\ Invocable(handlers[j])

====
